---- MODULE Spec2Model ----
(***************************************************************************)
(* Model of the discovery.ec2 component arguments                          *)
(* (internal/component/discovery/aws/ec2.go): EC2Arguments with its        *)
(* SetToDefault, Validate and Convert methods, and the NewEC2 discoverer   *)
(* factory driven by the generic discovery component's Update.             *)
(*                                                                         *)
(* Strings model Go strings ("" is the zero value, i.e. "unset").          *)
(* RefreshInterval is kept in seconds (60 * time.Second is 60).            *)
(***************************************************************************)
EXTENDS Integers, Sequences, FiniteSets, TLC

\* ---------------------------------------------------------------- bounds
MaxFilters == 2
MaxValues == 1
MaxUpdFilters == 1

\* ------------------------------------------------------- input alphabets
FilterNames == {"", "tag:env"}
FilterValueAlphabet == {"a", "b"}
UserRegions == {"", "eu-west-1"}
ImdsRegions == {"us-east-1"}
UserPorts == {80, 9100}
UserIntervals == {60, 10}
PollResults == {"G1", "G2"}

RECURSIVE SeqsUpTo(_, _)
SeqsUpTo(S, n) ==
  IF n = 0 THEN {<<>>}
  ELSE LET shorter == SeqsUpTo(S, n - 1)
       IN shorter \cup {Append(s, x) : s \in {t \in shorter : Len(t) = n - 1}, x \in S}

ValueLists == SeqsUpTo(FilterValueAlphabet, MaxValues)

\* type EC2Filter struct { Name string; Values []string }
EC2Filter == [Name : FilterNames, Values : ValueLists]

\* ------------------------------------------------------------ error values
Nil == "nil"
ErrRegionRequired == "EC2 SD configuration requires a region"
ErrFilterValuesEmpty == "EC2 SD configuration filter values cannot be empty"
\* the error awsConfig.LoadDefaultConfig returns, opaque to this package
ErrLoadDefaultConfig == "aws: failed to load default config"
ErrPoll == "poll failed"

\* ------------------------------------------------------------ EC2Arguments
\* EC2Arguments{}: the Go zero value, as registered in init()
EC2Arguments ==
  [Endpoint |-> "", Region |-> "", AccessKey |-> "", SecretKey |-> "",
   Profile |-> "", RoleARN |-> "", RefreshInterval |-> 0, Port |-> 0,
   Filters |-> <<>>, HTTPClientConfig |-> "zero"]

DefaultEC2SDConfig ==
  [EC2Arguments EXCEPT !.Port = 80, !.RefreshInterval = 60,
                       !.HTTPClientConfig = "DefaultHTTPClientConfig"]

\* a defaulting that fills the fields one by one and forgets Port
SetToDefaultForgetsPort(a) ==
  [DefaultEC2SDConfig EXCEPT !.Port = a.Port]

\* func (args *EC2Arguments) SetToDefault() { *args = DefaultEC2SDConfig }
SetToDefault(a) == DefaultEC2SDConfig

\* ----------------------------------------------------------------- Convert
\* args.HTTPClientConfig.Convert(): owned by the common/config package; the
\* converted value is a Prometheus config wrapping the same settings
HTTPClientConfigConvert(h) == <<"promcfg.HTTPClientConfig", h>>

RECURSIVE ConvertFiltersReversed(_, _, _)
ConvertFiltersReversed(fs, i, acc) ==
  IF i > Len(fs) THEN acc
  ELSE ConvertFiltersReversed(fs, i + 1,
         <<[Name |-> fs[i].Name, Values |-> fs[i].Values]>> \o acc)

\* for _, f := range args.Filters { cfg.Filters = append(cfg.Filters, ...) }
RECURSIVE ConvertFilters(_, _, _)
ConvertFilters(fs, i, acc) ==
  IF i > Len(fs) THEN acc
  ELSE ConvertFilters(fs, i + 1,
         Append(acc, [Name |-> fs[i].Name, Values |-> fs[i].Values]))

Convert(a) ==
  [Endpoint |-> a.Endpoint,
   Region |-> a.Region,
   AccessKey |-> a.AccessKey,
   SecretKey |-> a.SecretKey,
   Profile |-> a.Profile,
   RoleARN |-> a.RoleARN,
   RefreshInterval |-> a.RefreshInterval,
   Port |-> a.Port,
   HTTPClientConfig |-> HTTPClientConfigConvert(a.HTTPClientConfig),
   Filters |-> ConvertFilters(a.Filters, 1, <<>>)]

\* ---------------------------------------------------------------- Validate
\* What the environment answers to the two steps of the region lookup:
\* awsConfig.LoadDefaultConfig, then imds GetRegion.
ProbeOutcomes ==
  {[load |-> "fail", imds |-> "notcalled", region |-> ""],
   [load |-> "ok", imds |-> "fail", region |-> ""]}
  \cup {[load |-> "ok", imds |-> "ok", region |-> r] : r \in ImdsRegions}

ProbeFailed(env) == env.load = "fail" \/ env.imds = "fail"

\* a filter loop that only looks at the first filter
RECURSIVE CheckFiltersFirstOnly(_, _)
CheckFiltersFirstOnly(fs, i) ==
  IF i > Len(fs) THEN Nil
  ELSE IF Len(fs[i].Values) = 0 THEN ErrFilterValuesEmpty
  ELSE Nil

\* for _, f := range args.Filters { if len(f.Values) == 0 { return errors.New(...) } }
RECURSIVE CheckFilters(_, _)
CheckFilters(fs, i) ==
  IF i > Len(fs) THEN Nil
  ELSE IF Len(fs[i].Values) = 0 THEN ErrFilterValuesEmpty
  ELSE CheckFilters(fs, i + 1)

\* a Validate that looks the region up whatever args.Region holds
ValidateAlwaysProbes(a, env) ==
  IF env.load = "fail"
  THEN [args |-> a, err |-> ErrLoadDefaultConfig, loads |-> 1, imds |-> 0]
  ELSE IF env.imds = "fail"
  THEN [args |-> a, err |-> ErrRegionRequired, loads |-> 1, imds |-> 1]
  ELSE [args |-> [a EXCEPT !.Region = env.region],
        err |-> CheckFilters(a.Filters, 1), loads |-> 1, imds |-> 1]

\* a Validate that returns as soon as the region lookup succeeded
ValidateReturnsAfterLookup(a, env) ==
  IF a.Region = ""
  THEN IF env.load = "fail"
       THEN [args |-> a, err |-> ErrLoadDefaultConfig, loads |-> 1, imds |-> 0]
       ELSE IF env.imds = "fail"
       THEN [args |-> a, err |-> ErrRegionRequired, loads |-> 1, imds |-> 1]
       ELSE [args |-> [a EXCEPT !.Region = env.region],
             err |-> Nil, loads |-> 1, imds |-> 1]
  ELSE [args |-> a, err |-> CheckFilters(a.Filters, 1), loads |-> 0, imds |-> 0]

\* a Validate that uses the looked-up region without storing it
ValidateDropsRegion(a, env) ==
  IF a.Region = ""
  THEN IF env.load = "fail"
       THEN [args |-> a, err |-> ErrLoadDefaultConfig, loads |-> 1, imds |-> 0]
       ELSE IF env.imds = "fail"
       THEN [args |-> a, err |-> ErrRegionRequired, loads |-> 1, imds |-> 1]
       ELSE [args |-> a, err |-> CheckFilters(a.Filters, 1),
             loads |-> 1, imds |-> 1]
  ELSE [args |-> a, err |-> CheckFilters(a.Filters, 1), loads |-> 0, imds |-> 0]

\* func (args *EC2Arguments) Validate() error
\* Result: the arguments as the pointer receiver leaves them, the returned
\* error, and how often LoadDefaultConfig and GetRegion were called.
Validate(a, env) ==
  IF a.Region = ""
  THEN IF env.load = "fail"
       THEN [args |-> a, err |-> ErrLoadDefaultConfig, loads |-> 1, imds |-> 0]
       ELSE IF env.imds = "fail"
       THEN [args |-> a, err |-> ErrRegionRequired, loads |-> 1, imds |-> 1]
       ELSE [args |-> [a EXCEPT !.Region = env.region],
             err |-> CheckFilters(a.Filters, 1), loads |-> 1, imds |-> 1]
  ELSE [args |-> a, err |-> CheckFilters(a.Filters, 1), loads |-> 0, imds |-> 0]

\* ------------------------------------------------------------------- state
VARIABLES
  args,      \* the EC2Arguments value being configured
  last,      \* the last method call on args: name, arguments before, results
  disc,      \* component: active Discoverer (the EC2SDConfig it was built from)
  interval,  \* component: refresh interval the scheduler reads
  snapshot,  \* component: last successfully polled target groups
  lastErr,   \* component: last poll error
  upd        \* the last Update call: sequence bit, error, factory calls

vars == <<args, last, disc, interval, snapshot, lastErr, upd>>
compVars == <<disc, interval, snapshot, lastErr, upd>>
argVars == <<args, last>>

\* an absent Discoverer or argument is the empty sequence, a present one <<d>>
NoDisc == <<>>
NoArg == <<>>
NoSnapshot == "none"
NoOut == "none"
NoProbe == [load |-> "notcalled", imds |-> "notcalled", region |-> ""]

Init ==
  /\ args = EC2Arguments
  /\ last = [op |-> "new", twice |-> FALSE, pre |-> EC2Arguments, err |-> Nil,
             loads |-> 0, imds |-> 0, env |-> NoProbe, out |-> NoOut]
  /\ disc = NoDisc
  /\ interval = 0
  /\ snapshot = NoSnapshot
  /\ lastErr = Nil
  /\ upd = [n |-> 0, err |-> Nil, factoryCalls |-> 0, factoryArg |-> NoArg]

Assigned(a) ==
  [op |-> "assign", twice |-> FALSE, pre |-> a, err |-> Nil,
   loads |-> 0, imds |-> 0, env |-> NoProbe, out |-> NoOut]

\* ----------------------------------------- field assignment (the decoder)
SetRegion ==
  /\ \E r \in UserRegions : args' = [args EXCEPT !.Region = r]
  /\ last' = Assigned(args')
  /\ UNCHANGED compVars

SetPort ==
  /\ \E p \in UserPorts : args' = [args EXCEPT !.Port = p]
  /\ last' = Assigned(args')
  /\ UNCHANGED compVars

SetRefreshInterval ==
  /\ \E d \in UserIntervals : args' = [args EXCEPT !.RefreshInterval = d]
  /\ last' = Assigned(args')
  /\ UNCHANGED compVars

AddFilter ==
  /\ Len(args.Filters) < MaxFilters
  /\ \E f \in EC2Filter : args' = [args EXCEPT !.Filters = Append(@, f)]
  /\ last' = Assigned(args')
  /\ UNCHANGED compVars

\* ------------------------------------------------------------ method calls
DoSetToDefault ==
  /\ args' = SetToDefault(args)
  /\ last' = [op |-> "SetToDefault", twice |-> (last.op = "SetToDefault"),
              pre |-> args, err |-> Nil, loads |-> 0, imds |-> 0,
              env |-> NoProbe, out |-> NoOut]
  /\ UNCHANGED compVars

DoValidate ==
  /\ \E env \in ProbeOutcomes :
       LET v == Validate(args, env) IN
       /\ args' = v.args
       /\ last' = [op |-> "Validate", twice |-> FALSE, pre |-> args,
                   err |-> v.err, loads |-> v.loads, imds |-> v.imds,
                   env |-> env, out |-> NoOut]
  /\ UNCHANGED compVars

\* Convert has a value receiver: it works on a copy of args
DoConvert ==
  /\ args' = args
  /\ last' = [op |-> "Convert", twice |-> FALSE, pre |-> args, err |-> Nil,
              loads |-> 0, imds |-> 0, env |-> NoProbe, out |-> Convert(args)]
  /\ UNCHANGED compVars

Next ==
  \/ SetRegion
  \/ SetPort
  \/ SetRefreshInterval
  \/ AddFilter
  \/ DoSetToDefault
  \/ DoValidate
  \/ DoConvert

Spec == Init /\ [][Next]_vars

\* --------------------------------------------------- discovery component
\* The generic discovery component (discovery.New, Update, the polling
\* loop) lives in the discovery package; it is modelled here as documented:
\* Update defaults, validates, converts and builds the Discoverer on the
\* side and swaps the active Discoverer and interval only if all succeed.

\* Validate never reads a Filter's name, so one name is enough here
UpdFilters == [Name : {"tag:env"}, Values : ValueLists]
UpdFilterLists == SeqsUpTo(UpdFilters, MaxUpdFilters)
UpdateInputs ==
  [Region : UserRegions, RefreshInterval : UserIntervals, Filters : UpdFilterLists]

\* defaults first, then the fields the user wrote
Decode(user) ==
  [SetToDefault(EC2Arguments) EXCEPT !.Region = user.Region,
                                     !.RefreshInterval = user.RefreshInterval,
                                     !.Filters = user.Filters]

\* the creator closure NewEC2 hands to discovery.New:
\*   conf := args.(EC2Arguments).Convert()
\*   return promaws.NewEC2Discovery(conf, opts.Logger), nil
NewEC2(a) == [disc |-> [conf |-> Convert(a)], err |-> Nil]

Update ==
  \E user \in UpdateInputs, env \in ProbeOutcomes :
    LET v == Validate(Decode(user), env) IN
    IF v.err # Nil
    THEN /\ upd' = [n |-> 1 - upd.n, err |-> v.err, factoryCalls |-> 0,
                    factoryArg |-> NoArg]
         /\ UNCHANGED <<disc, interval, snapshot, lastErr, argVars>>
    ELSE LET d == NewEC2(v.args) IN
         IF d.err # Nil
         THEN /\ upd' = [n |-> 1 - upd.n, err |-> d.err, factoryCalls |-> 1,
                         factoryArg |-> <<v.args>>]
              /\ UNCHANGED <<disc, interval, snapshot, lastErr, argVars>>
         ELSE /\ disc' = <<d.disc>>
              /\ interval' = v.args.RefreshInterval
              /\ upd' = [n |-> 1 - upd.n, err |-> Nil, factoryCalls |-> 1,
                         factoryArg |-> <<v.args>>]
              /\ UNCHANGED <<snapshot, lastErr, argVars>>

PollPublished ==
  /\ disc # NoDisc
  /\ \E g \in PollResults : snapshot' = g
  /\ lastErr' = Nil
  /\ UNCHANGED <<disc, interval, upd, argVars>>

PollFailed ==
  /\ disc # NoDisc
  /\ lastErr' = ErrPoll
  /\ UNCHANGED <<disc, interval, snapshot, upd, argVars>>

NextComponent ==
  \/ Update
  \/ PollPublished
  \/ PollFailed

SpecComponent == Init /\ [][NextComponent]_vars

\* ------------------------------------------------------------ properties
HasEmptyValues(a) == \E i \in 1..Len(a.Filters) : Len(a.Filters[i].Values) = 0
HasEmptyName(a) == \E i \in 1..Len(a.Filters) : a.Filters[i].Name = ""

\* C1: a configuration with a Filter that has zero values is validated
\* without any attempt at the region lookup (neither LoadDefaultConfig nor
\* GetRegion is called), whether or not Region is set.
C1_NoLookupOnEmptyFilter ==
  (last.op = "Validate" /\ HasEmptyValues(last.pre))
    => (last.loads = 0 /\ last.imds = 0)

\* C2: with Region unset and the lookup failing at either step, Validate
\* returns the error naming the region requirement, never the lookup's own.
C2_LookupFailureNamesRegion ==
  (last.op = "Validate" /\ last.pre.Region = "" /\ ProbeFailed(last.env))
    => last.err = ErrRegionRequired

\* C3 as stated: a configuration Validate accepts has no Filter with an
\* empty name and no Filter with an empty value list.
C3_AcceptedHasNoEmptyNameOrValues ==
  (last.op = "Validate" /\ last.err = Nil)
    => (~HasEmptyValues(args) /\ ~HasEmptyName(args))

\* C3 amended: a configuration Validate accepts has no Filter with an empty
\* value list (Filter names are not checked).
C3_AcceptedHasNoEmptyValues ==
  (last.op = "Validate" /\ last.err = Nil) => ~HasEmptyValues(args)

C3_Witness ==
  /\ last.op = "Validate"
  /\ last.err = Nil
  /\ Len(args.Filters) >= 2
  /\ HasEmptyName(args)

\* C4: a configuration with a Filter that has zero values is never accepted
\* by Validate, whatever Region holds and whatever the lookup answers.
C4_EmptyFilterRejected ==
  (last.op = "Validate" /\ HasEmptyValues(last.pre)) => last.err # Nil

C4_Witness ==
  /\ last.op = "Validate"
  /\ HasEmptyValues(last.pre)
  /\ Len(last.pre.Filters) >= 2
  /\ Len(last.pre.Filters[1].Values) > 0
  /\ last.pre.Region = ""
  /\ last.env.imds = "ok"
  /\ last.err = ErrFilterValuesEmpty

\* C5: with Region set on entry, Validate makes no lookup call and leaves
\* Region as the caller set it.
C5_RegionSetNoLookup ==
  (last.op = "Validate" /\ last.pre.Region # "")
    => (last.loads = 0 /\ last.imds = 0 /\ args.Region = last.pre.Region)

C5_Witness ==
  /\ last.op = "Validate"
  /\ last.pre.Region = "eu-west-1"
  /\ last.env.load = "ok"
  /\ last.err = Nil

\* C6: with Region unset, the lookup answering region r and every Filter
\* holding a value, Validate succeeds and Region is r afterwards.
C6_LookupFillsRegion ==
  (/\ last.op = "Validate"
   /\ last.pre.Region = ""
   /\ last.env.load = "ok"
   /\ last.env.imds = "ok"
   /\ ~HasEmptyValues(last.pre))
    => (last.err = Nil /\ args.Region = last.env.region)

C6_Witness ==
  /\ last.op = "Validate"
  /\ last.pre.Region = ""
  /\ last.env.imds = "ok"
  /\ Len(last.pre.Filters) >= 1
  /\ ~HasEmptyValues(last.pre)
  /\ args.Region = "us-east-1"

\* C7: a second SetToDefault right after a first leaves the arguments as the
\* first left them, with Port 80 and RefreshInterval 60 seconds.
C7_SetToDefaultIdempotent ==
  (last.op = "SetToDefault" /\ last.twice)
    => (args = last.pre /\ args.Port = 80 /\ args.RefreshInterval = 60)

C7_Witness ==
  /\ last.op = "SetToDefault"
  /\ last.twice
  /\ args = last.pre

\* C8: Convert yields as many filters as the arguments hold, the i-th with
\* the name and values of the i-th Filter; it returns no error, makes no
\* lookup call and leaves the arguments untouched.
C8_ConvertCopiesFilters ==
  last.op = "Convert"
    => (/\ Len(last.out.Filters) = Len(last.pre.Filters)
        /\ \A i \in 1..Len(last.pre.Filters) :
             /\ last.out.Filters[i].Name = last.pre.Filters[i].Name
             /\ last.out.Filters[i].Values = last.pre.Filters[i].Values
        /\ args = last.pre
        /\ last.err = Nil
        /\ last.loads = 0
        /\ last.imds = 0)

C8_Witness ==
  /\ last.op = "Convert"
  /\ Len(last.pre.Filters) >= 2
  /\ last.pre.Filters[1] # last.pre.Filters[2]
  /\ Len(last.out.Filters) >= 2

C10_ErrorLeavesArgsUntouched ==
  (last.op = "Validate" /\ last.err # Nil) => args = last.pre

====
